---------------------------- MODULE Spec2Model ----------------------------
(***************************************************************************)
(* Model of letterboxed/main.go: the dictionary trie (loadWords,           *)
(* allValidWords, isWordValid, explore), the side-avoiding word filter     *)
(* (validWordHelper, validWords, validWordsStartingWith), the chain search *)
(* (isGameComplete, numberOfSolutions) and the repl that drives them.      *)
(*                                                                         *)
(* A Go string is a sequence of its code points (all inputs are ASCII, so  *)
(* bytes, runes and len() agree).  A *trie is the path of letters leading  *)
(* to the node from the root; the whole trie is a function from the paths  *)
(* of its nodes to their `complete` flag, and a node's `children` map holds *)
(* the letters r for which path \o <<r>> is a node.  A path that is not a  *)
(* node is the nil pointer a failed map lookup yields.                     *)
(***************************************************************************)
EXTENDS Integers, Sequences, FiniteSets, TLC

\* ASCII code points of the characters the inputs use.
ch ==
    [A |-> 65, B |-> 66, C |-> 67, D |-> 68, E |-> 69, F |-> 70, G |-> 71,
     H |-> 72, I |-> 73, J |-> 74, K |-> 75, L |-> 76, M |-> 77, N |-> 78,
     O |-> 79, P |-> 80, Q |-> 81, R |-> 82, S |-> 83, T |-> 84, U |-> 85,
     V |-> 86, W |-> 87, X |-> 88, Z |-> 90,
     a |-> 97, b |-> 98, c |-> 99, d |-> 100, e |-> 101, f |-> 102, g |-> 103,
     h |-> 104, i |-> 105, j |-> 106, k |-> 107, l |-> 108, p |-> 112,
     r |-> 114, s |-> 115, t |-> 116, v |-> 118, x |-> 120, z |-> 122,
     one |-> 49, comma |-> 44, dot |-> 46, space |-> 32]

\* Number of lines the word source holds at most.
MaxLines == 3

\* strings.ToUpper / strings.ToLower on ASCII text.
ToUpperCh(c) == IF c \in 97..122 THEN c - 32 ELSE c

ToLowerCh(c) == IF c \in 65..90 THEN c + 32 ELSE c

ToUpper(str) == [n \in 1..Len(str) |-> ToUpperCh(str[n])]

ToLower(str) == [n \in 1..Len(str) |-> ToLowerCh(str[n])]

\* The characters of "1234567890-'.!@#$%^&*()" (line 49).
FilteredChars == (48..57) \cup {45, 39, 46, 33, 64, 35, 36, 37, 94, 38, 42, 40, 41}

\* strings.ContainsAny(word, chars)
ContainsAny(word, chars) == \E n \in 1..Len(word) : word[n] \in chars

\* The bytes unicode.IsSpace accepts in ASCII text (strings.TrimSpace).
WhiteSpace == {9, 10, 11, 12, 13, 32}

RECURSIVE TrimLeft(_)
TrimLeft(str) ==
    IF Len(str) > 0 /\ str[1] \in WhiteSpace THEN TrimLeft(Tail(str)) ELSE str

RECURSIVE TrimRight(_)
TrimRight(str) ==
    IF Len(str) > 0 /\ str[Len(str)] \in WhiteSpace
    THEN TrimRight(SubSeq(str, 1, Len(str) - 1))
    ELSE str

TrimSpace(str) == TrimRight(TrimLeft(str))

\* cleanInput: trim, then lower-case.
cleanInput(text) == ToLower(TrimSpace(text))

\* Go's < on strings: bytewise lexicographic, a proper prefix first.
RECURSIVE StrLess(_, _)
StrLess(x, y) ==
    IF Len(y) = 0 THEN FALSE
    ELSE IF Len(x) = 0 THEN TRUE
    ELSE IF x[1] # y[1] THEN x[1] < y[1]
    ELSE StrLess(Tail(x), Tail(y))

\* strings.Contains(str, sub)
Contains(str, sub) ==
    \E n \in 1..(Len(str) + 1) :
        /\ n + Len(sub) - 1 <= Len(str)
        /\ SubSeq(str, n, n + Len(sub) - 1) = sub

\* strings.Split(str, ",")
RECURSIVE SplitFrom(_, _, _)
SplitFrom(str, n, cur) ==
    IF n > Len(str) THEN <<cur>>
    ELSE IF str[n] = ch.comma THEN <<cur>> \o SplitFrom(str, n + 1, <<>>)
    ELSE SplitFrom(str, n + 1, Append(cur, str[n]))

Split(str) == SplitFrom(str, 1, <<>>)

\* min(a, b)
Min(a, b) == IF a < b THEN a ELSE b

----------------------------------------------------------------------------
\* The trie.

\* trie{children: make(map[rune]*trie)}: a root with no children.
EmptyTrie == (<<>> :> FALSE)

\* t.children[r] for the node at path `node`: the child's path.
Child(node, r) == Append(node, r)

\* _, found := t.children[r]
Found(t, node, r) == Child(node, r) \in DOMAIN t

\* The keys of node.children.
ChildKeys(t, node) ==
    {t1[Len(t1)] : t1 \in {q \in DOMAIN t : Len(q) = Len(node) + 1
                                           /\ SubSeq(q, 1, Len(node)) = node}}

\* The flag a node gets when the insertion loop creates it (line 56).
CompleteOnCreate(word, n) == n = Len(word) - 1

\* The letter loop of loadWords (lines 53-65) from letter index n (0-based)
\* with t at `node`: an existing child is stepped into untouched, a missing
\* one is created with its flag.
RECURSIVE InsertFrom(_, _, _, _, _)
InsertFrom(t, word, up, n, node) ==
    IF n >= Len(up) THEN t
    ELSE LET r == up[n + 1]
             next == Child(node, r)
             t2 == IF Found(t, node, r)
                   THEN t
                   ELSE t @@ (next :> CompleteOnCreate(word, n))
         IN  InsertFrom(t2, word, up, n + 1, next)

\* One iteration of the scanner loop (lines 47-66).
InsertWord(t, word) ==
    IF ContainsAny(word, FilteredChars) THEN t
    ELSE InsertFrom(t, word, ToUpper(word), 0, <<>>)

\* The walk `for _, ch := range word { next, found := curr.children[ch] ... }`
\* finds every letter.
HasPath(t, word) == \A n \in 1..Len(word) : SubSeq(word, 1, n) \in DOMAIN t

\* isWordValid
isWordValid(t, word) == HasPath(t, word)

\* sortedChildren: the keys as one-letter strings, sorted.
RECURSIVE SortChars(_)
SortChars(S) ==
    IF S = {} THEN <<>>
    ELSE LET m == CHOOSE x \in S : \A y \in S : x <= y
         IN  <<m>> \o SortChars(S \ {m})

sortedChildren(t, node) == SortChars(ChildKeys(t, node))

\* The closure `helper` of allValidWords (lines 167-186), its loop from the
\* k-th sorted child on.
RECURSIVE WordsBelow(_, _, _, _)
WordsBelow(t, curr, sc, k) ==
    IF k > Len(sc) THEN <<>>
    ELSE LET c == sc[k]
             next == Child(curr, c)
             mine ==
                 IF ChildKeys(t, next) = {} THEN << <<c>> >>
                 ELSE LET words == WordsBelow(t, next, sortedChildren(t, next), 1)
                      IN  (IF t[next] THEN << <<c>> >> ELSE <<>>)
                          \o [n \in 1..Len(words) |-> <<c>> \o words[n]]
         IN  mine \o WordsBelow(t, curr, sc, k + 1)

\* allValidWords
allValidWords(t, pre) ==
    IF ~HasPath(t, pre) THEN <<>>
    ELSE LET below == WordsBelow(t, pre, sortedChildren(t, pre), 1)
         IN  [n \in 1..Len(below) |-> pre \o below[n]]

----------------------------------------------------------------------------
\* The side-avoiding filter.

\* Mutant of SkipGroup: the side just used is not skipped.
SkipGroupNever(i, lastActiveGroup) == FALSE

\* `if i == lastActiveGroup { continue }` (line 232).
SkipGroup(i, lastActiveGroup) == i = lastActiveGroup

\* Mutant of RecordsWord: the length guard is one too low.
RecordsWordFromTwoLetters(t, next, letters) == t[next] /\ Len(letters) >= 1

\* `next.complete && len(letters) >= 2` (line 240).
RecordsWord(t, next, letters) == t[next] /\ Len(letters) >= 2

\* validWordHelper (lines 229-247): the two nested loops from group i
\* (0-based, as in the source) and letter j (1-based) on.  currTrie is a node.
RECURSIVE validWordHelperFrom(_, _, _, _, _, _, _)
validWordHelperFrom(t, currTrie, letters, groupings, lastActiveGroup, i, j) ==
    IF i >= Len(groupings) THEN <<>>
    ELSE IF SkipGroup(i, lastActiveGroup) \/ j > Len(groupings[i + 1])
    THEN validWordHelperFrom(t, currTrie, letters, groupings, lastActiveGroup, i + 1, 1)
    ELSE LET c == groupings[i + 1][j]
             next == Child(currTrie, c)
             here ==
                 IF ~Found(t, currTrie, c) THEN <<>>
                 ELSE (IF RecordsWord(t, next, letters)
                       THEN <<Append(letters, c)>> ELSE <<>>)
                      \o validWordHelperFrom(t, next, Append(letters, c),
                                             groupings, i, 0, 1)
         IN  here \o validWordHelperFrom(t, currTrie, letters, groupings,
                                         lastActiveGroup, i, j + 1)

validWordHelper(t, currTrie, letters, groupings, lastActiveGroup) ==
    validWordHelperFrom(t, currTrie, letters, groupings, lastActiveGroup, 0, 1)

\* validWordHelper on a nil currTrie dereferences it at the first letter its
\* loops reach (line 236).
DerefsNil(groupings, lastActiveGroup) ==
    \E i \in 0..(Len(groupings) - 1) :
        ~SkipGroup(i, lastActiveGroup) /\ Len(groupings[i + 1]) > 0

\* validWords
validWords(t, game) == validWordHelper(t, <<>>, <<>>, game.groupings, -1)

\* The first group containing prefix, or -1 (lines 255-261).
ActiveGroup(game, prefix) ==
    LET hits == {i \in 0..(Len(game.groupings) - 1) :
                     Contains(game.groupings[i + 1], prefix)}
    IN  IF hits = {} THEN -1 ELSE CHOOSE i \in hits : \A k \in hits : i <= k

\* The group handed to validWordHelper as lastActiveGroup (line 267).
ForbiddenGroup(activeGroup) == activeGroup

\* validWordsStartingWith.  status is "ok" (words returned), "fatal"
\* (log.Fatalf: the process exits with code 1) or "panic" (nil dereference).
validWordsStartingWith(t, game, prefix) ==
    LET c == prefix[1]
        activeGroup == ActiveGroup(game, prefix)
    IN  IF activeGroup = -1
        THEN [status |-> "fatal", words |-> <<>>]
        ELSE IF ~Found(t, <<>>, c)
        THEN [status |-> IF DerefsNil(game.groupings, ForbiddenGroup(activeGroup))
                         THEN "panic" ELSE "ok",
              words |-> <<>>]
        ELSE [status |-> "ok",
              words |-> validWordHelper(t, Child(<<>>, c), prefix, game.groupings,
                                        ForbiddenGroup(activeGroup))]

----------------------------------------------------------------------------
\* The chain search.

\* The number of letters of a box (lines 275, 280).
BoxLetterCount == 12

\* The length of a chain (line 294).
ChainLength == 3

\* isGameComplete (lines 270-281): the loops from letter c of word w on, with
\* the keys `letters` collected so far.
\* Mutant of Covered: one letter too few is enough.
CoveredAtEleven(letters) == Cardinality(letters) = BoxLetterCount - 1

\* `len(letters) == 12` (lines 275, 280).
Covered(letters) == Cardinality(letters) = BoxLetterCount

RECURSIVE isGameCompleteFrom(_, _, _, _)
isGameCompleteFrom(words, w, c, letters) ==
    IF w > Len(words) THEN Covered(letters)
    ELSE IF c > Len(words[w]) THEN isGameCompleteFrom(words, w + 1, 1, letters)
    ELSE LET letters2 == letters \cup {words[w][c]}
         IN  IF Covered(letters2) THEN TRUE
             ELSE isGameCompleteFrom(words, w, c + 1, letters2)

isGameComplete(words) == isGameCompleteFrom(words, 1, 1, {})

\* byLengthThenAlphabetically (lines 311-317, 366-372)
byLengthThenAlphabetically(x, y) ==
    LET deltaLength == Len(x) - Len(y)
    IN  deltaLength > 0 \/ (deltaLength = 0 /\ StrLess(x, y))

\* sort.Slice(words, byLengthThenAlphabetically)
RECURSIVE InsertSorted(_, _)
InsertSorted(sorted, w) ==
    IF Len(sorted) = 0 THEN <<w>>
    ELSE IF byLengthThenAlphabetically(w, sorted[1]) THEN <<w>> \o sorted
    ELSE <<sorted[1]>> \o InsertSorted(Tail(sorted), w)

RECURSIVE SortWords(_)
SortWords(words) ==
    IF Len(words) = 0 THEN <<>>
    ELSE InsertSorted(SortWords(Tail(words)), words[1])

\* slices.Contains(words, w)
SliceContains(words, w) == \E n \in 1..Len(words) : words[n] = w

\* The closure `helper` of numberOfSolutions (lines 285-308) and its loop over
\* nextWords from index k on.  A panic or fatal exit inside ends the count.
RECURSIVE helper(_, _, _)
RECURSIVE helperLoop(_, _, _, _, _)
helper(t, game, words) ==
    LET lastWord == words[Len(words)]
        lastLetter == <<lastWord[Len(lastWord)]>>
        nextWords == validWordsStartingWith(t, game, lastLetter)
    IN  IF nextWords.status # "ok" THEN [status |-> nextWords.status, n |-> 0]
        ELSE IF Len(words) = ChainLength
        THEN [status |-> "ok", n |-> IF isGameComplete(words) THEN 1 ELSE 0]
        ELSE helperLoop(t, game, words, nextWords.words, 1)

helperLoop(t, game, words, nextWords, k) ==
    IF k > Len(nextWords) THEN [status |-> "ok", n |-> 0]
    ELSE IF SliceContains(words, nextWords[k])
    THEN helperLoop(t, game, words, nextWords, k + 1)
    ELSE LET one == helper(t, game, Append(words, nextWords[k]))
         IN  IF one.status # "ok" THEN one
             ELSE LET rest == helperLoop(t, game, words, nextWords, k + 1)
                  IN  IF rest.status # "ok" THEN rest
                      ELSE [status |-> "ok", n |-> one.n + rest.n]

\* The loop `for _, w := range words { acc += helper([]string{w}) }`.
RECURSIVE startLoop(_, _, _, _)
startLoop(t, game, words, k) ==
    IF k > Len(words) THEN [status |-> "ok", n |-> 0]
    ELSE LET one == helper(t, game, <<words[k]>>)
         IN  IF one.status # "ok" THEN one
             ELSE LET rest == startLoop(t, game, words, k + 1)
                  IN  IF rest.status # "ok" THEN rest
                      ELSE [status |-> "ok", n |-> one.n + rest.n]

\* numberOfSolutions
numberOfSolutions(t, game) == startLoop(t, game, SortWords(validWords(t, game)), 1)

----------------------------------------------------------------------------
\* The trie explorer.

DotReset == <<ch.dot, ch.r, ch.e, ch.s, ch.e, ch.t>>

DotValid == <<ch.dot, ch.v, ch.a, ch.l, ch.i, ch.d>>

\* Mutant of ExploreMiss: the prefix is dropped with the error.
ExploreMissResets(currWord) == [word |-> <<>>, err |-> TRUE]

\* What explore returns when the walk misses a letter (line 126).
ExploreMiss(currWord) == [word |-> currWord, err |-> TRUE]

\* Mutant of ExploreLand: a node without children is kept as the prefix.
ExploreLandKeeps(t, newWord) == [word |-> newWord, err |-> FALSE]

\* What explore returns once the walk has found newWord (lines 130-142).
ExploreLand(t, newWord) ==
    IF ChildKeys(t, newWord) = {}
    THEN [word |-> <<>>, err |-> FALSE]
    ELSE [word |-> newWord, err |-> FALSE]

\* explore: the returned prefix and whether an error is returned.
explore(t, text, currWord) ==
    IF text = DotReset THEN [word |-> <<>>, err |-> FALSE]
    ELSE IF text = DotValid THEN [word |-> currWord, err |-> FALSE]
    ELSE LET newWord == ToUpper(currWord \o text)
         IN  IF ~HasPath(t, newWord) THEN ExploreMiss(currWord)
             ELSE ExploreLand(t, newWord)

\* words[:min(10, len(words))]
FirstTen(words) == SubSeq(words, 1, Min(10, Len(words)))

----------------------------------------------------------------------------
\* The inputs.

\* Values of the --letters flag.
LettersPool ==
    {<<ch.a, ch.b, ch.c, ch.comma, ch.d, ch.e, ch.f, ch.comma,
       ch.g, ch.h, ch.i, ch.comma, ch.j, ch.k, ch.l>>,       \* abc,def,ghi,jkl
     <<ch.A, ch.E, ch.I, ch.comma, ch.D, ch.H, ch.L, ch.comma,
       ch.G, ch.K, ch.C, ch.comma, ch.J, ch.B, ch.F>>,       \* AEI,DHL,GKC,JBF
     <<ch.A, ch.B, ch.C, ch.comma, ch.D, ch.E, ch.F, ch.comma,
       ch.G, ch.H, ch.I>>,                                   \* ABC,DEF,GHI
     <<ch.A, ch.B, ch.comma, ch.D, ch.E, ch.F, ch.comma,
       ch.G, ch.H, ch.I, ch.comma, ch.J, ch.K, ch.L>>,       \* AB,DEF,GHI,JKL
     <<ch.A, ch.B, ch.C, ch.comma, ch.D, ch.E, ch.F, ch.comma,
       ch.G, ch.H, ch.I, ch.comma, ch.J, ch.K, ch.A>>,       \* ABC,DEF,GHI,JKA
     <<>>}

\* Lines of valid_words.txt.
WordPool ==
    {<<ch.A, ch.D, ch.G>>,
     <<ch.G, ch.J, ch.A>>,
     <<ch.a, ch.d, ch.g, ch.a>>,
     <<ch.A, ch.D, ch.G, ch.J, ch.B, ch.E>>,
     <<ch.E, ch.H, ch.K, ch.C, ch.F>>,
     <<ch.F, ch.I, ch.L, ch.A>>,
     <<ch.A, ch.D>>,
     <<ch.G, ch.one>>,
     <<ch.A, ch.B, ch.G>>,
     <<ch.G, ch.M, ch.A>>}

Help == <<ch.h, ch.e, ch.l, ch.p>>

Clear == <<ch.c, ch.l, ch.e, ch.a, ch.r>>

Exit == <<ch.e, ch.x, ch.i, ch.t>>

Trie == <<ch.t, ch.r, ch.i, ch.e>>

\* The keys of `commands` (lines 21-24).
commands == {Help, Clear}

\* Lines typed at the prompt.
InputPool ==
    {Help, Exit, Trie, DotReset, DotValid,
     <<ch.a>>, <<ch.space, ch.G, ch.space>>, <<ch.z>>, <<ch.d, ch.g>>,
     <<ch.space>>}

----------------------------------------------------------------------------
\* The program.

VARIABLES
    pc,          \* where main is: "start", "open", "load", "repl", "exited", "panicked"
    lettersPtr,  \* the --letters flag
    dictionary,  \* the trie loadWords builds and repl reads
    linesRead,   \* lines the scanner has returned
    accepted,    \* history: the upper-cased lines loadWords did not skip
    game,        \* gameState
    solutions,   \* what numberOfSolutions came to
    trieMode,
    currWord,
    last,        \* the last line the repl handled and what it showed
    exitCode,
    gcWords,     \* an argument of isGameComplete
    gcDone,      \* whether isGameComplete(gcWords) has been called
    gcResult     \* what it returned

vars == <<pc, lettersPtr, dictionary, linesRead, accepted, game, solutions,
          trieMode, currWord, last, exitCode, gcWords, gcDone, gcResult>>

gcVars == <<gcWords, gcDone, gcResult>>

NoLine ==
    [kind |-> "none", text |-> <<>>, err |-> FALSE, shown |-> <<>>, prev |-> <<>>]

Init ==
    /\ pc = "start"
    /\ lettersPtr \in LettersPool
    /\ dictionary = EmptyTrie
    /\ linesRead = 0
    /\ accepted = {}
    /\ game = [groupings |-> <<>>, words |-> <<>>]
    /\ solutions = [status |-> "none", n |-> 0]
    /\ trieMode = FALSE
    /\ currWord = <<>>
    /\ last = NoLine
    /\ exitCode = 0
    /\ gcWords = <<>>
    /\ gcDone = FALSE
    /\ gcResult = FALSE

\* What validateFlags lets through (lines 202-227).
FlagsValid(letters) ==
    LET groupings == Split(ToUpper(letters))
    IN  /\ Len(letters) # 0
        /\ Len(groupings) = 4
        /\ \A i \in 1..Len(groupings) : Len(groupings[i]) = 3
        /\ \A i, k \in 1..Len(groupings) : \A m, n \in 1..3 :
               groupings[i][m] = groupings[k][n] => (i = k /\ m = n)

\* validateFlags: os.Exit(1) on a malformed box.
ValidateFlags ==
    /\ pc = "start"
    /\ pc' = IF FlagsValid(lettersPtr) THEN "open" ELSE "exited"
    /\ exitCode' = IF FlagsValid(lettersPtr) THEN 0 ELSE 1
    /\ UNCHANGED <<gcVars, lettersPtr, dictionary, linesRead, accepted, game, solutions,
                   trieMode, currWord, last>>

\* os.Open succeeds (line 39).
OpenWords ==
    /\ pc = "open"
    /\ pc' = "load"
    /\ UNCHANGED <<gcVars, lettersPtr, dictionary, linesRead, accepted, game, solutions,
                   trieMode, currWord, last, exitCode>>

\* os.Open fails: loadWords returns the error, repl prints it and returns,
\* main ends (lines 40-42, 328-331, 389).
OpenFails ==
    /\ pc = "open"
    /\ pc' = "exited"
    /\ UNCHANGED <<gcVars, lettersPtr, dictionary, linesRead, accepted, game, solutions,
                   trieMode, currWord, last, exitCode>>

\* scanner.Scan() returns a line: one iteration of the loop of loadWords.
ScanLine ==
    /\ pc = "load"
    /\ linesRead < MaxLines
    /\ \E word \in WordPool :
        /\ dictionary' = InsertWord(dictionary, word)
        /\ accepted' = IF ContainsAny(word, FilteredChars)
                       THEN accepted
                       ELSE accepted \cup {ToUpper(word)}
    /\ linesRead' = linesRead + 1
    /\ UNCHANGED <<gcVars, pc, lettersPtr, game, solutions, trieMode, currWord,
                   last, exitCode>>

\* scanner.Scan() returns false: loadWords returns the trie, repl builds the
\* game and prints the solution count (lines 67, 333-341).
StartGame ==
    /\ pc = "load"
    /\ LET g == [groupings |-> Split(ToUpper(lettersPtr)), words |-> <<>>]
           n == numberOfSolutions(dictionary, g)
       IN  /\ game' = g
           /\ solutions' = n
           /\ pc' = IF n.status = "ok" THEN "repl"
                    ELSE IF n.status = "panic" THEN "panicked" ELSE "exited"
           /\ exitCode' = IF n.status = "ok" THEN 0
                          ELSE IF n.status = "panic" THEN 2 ELSE 1
    /\ UNCHANGED <<gcVars, lettersPtr, dictionary, linesRead, accepted, trieMode,
                   currWord, last>>

\* One iteration of the loop of repl (lines 342-381) on a line of stdin.
ReadLine ==
    /\ pc = "repl"
    /\ \E line \in InputPool :
        LET text == cleanInput(line) IN
        IF text \in commands
        THEN /\ last' = [kind |-> "command", text |-> text, err |-> FALSE,
                         shown |-> <<>>, prev |-> currWord]
             /\ UNCHANGED <<pc, trieMode, currWord, exitCode>>
        ELSE IF ToLower(Exit) = ToLower(text)
        THEN /\ pc' = "exited"
             /\ last' = [kind |-> "exit", text |-> text, err |-> FALSE,
                         shown |-> <<>>, prev |-> currWord]
             /\ UNCHANGED <<trieMode, currWord, exitCode>>
        ELSE IF ToLower(Trie) = ToLower(text)
        THEN /\ trieMode' = ~trieMode
             /\ last' = [kind |-> "trie", text |-> text, err |-> FALSE,
                         shown |-> <<>>, prev |-> currWord]
             /\ UNCHANGED <<pc, currWord, exitCode>>
        ELSE IF trieMode
        THEN LET res == explore(dictionary, text, currWord)
             IN  /\ currWord' = res.word
                 /\ last' = [kind |-> "explore", text |-> text, err |-> res.err,
                             shown |-> <<>>, prev |-> currWord]
                 /\ UNCHANGED <<pc, trieMode, exitCode>>
        ELSE IF Len(text) = 1
        THEN LET res == validWordsStartingWith(dictionary, game, ToUpper(text))
             IN  /\ pc' = IF res.status = "ok" THEN "repl"
                          ELSE IF res.status = "panic" THEN "panicked"
                          ELSE "exited"
                 /\ exitCode' = IF res.status = "ok" THEN 0
                                ELSE IF res.status = "panic" THEN 2 ELSE 1
                 /\ last' = [kind |-> "query", text |-> text, err |-> FALSE,
                             shown |-> IF res.status = "ok"
                                       THEN FirstTen(SortWords(res.words))
                                       ELSE <<>>,
                             prev |-> currWord]
                 /\ UNCHANGED <<trieMode, currWord>>
        ELSE /\ last' = [kind |-> "ignored", text |-> text, err |-> FALSE,
                         shown |-> <<>>, prev |-> currWord]
             /\ UNCHANGED <<pc, trieMode, currWord, exitCode>>
    /\ UNCHANGED <<gcVars, lettersPtr, dictionary, linesRead, accepted, game, solutions>>

\* reader.Scan() returns false: repl returns and main ends (lines 342, 389).
EndOfInput ==
    /\ pc = "repl"
    /\ pc' = "exited"
    /\ last' = [kind |-> "eof", text |-> <<>>, err |-> FALSE, shown |-> <<>>,
                prev |-> currWord]
    /\ UNCHANGED <<gcVars, lettersPtr, dictionary, linesRead, accepted, game, solutions,
                   trieMode, currWord, exitCode>>

Next ==
    \/ ValidateFlags
    \/ OpenWords
    \/ OpenFails
    \/ ScanLine
    \/ StartGame
    \/ ReadLine
    \/ EndOfInput

Spec == Init /\ [][Next]_vars

----------------------------------------------------------------------------
\* isGameComplete on its own: any list of words may be handed to it.

\* Number of words handed to isGameComplete at most.
MaxWords == 3

\* Words handed to isGameComplete.
GCPool ==
    {<<ch.A, ch.D, ch.G, ch.J, ch.B, ch.E>>,
     <<ch.E, ch.H, ch.K, ch.C, ch.F>>,
     <<ch.F, ch.I, ch.L, ch.A>>,
     <<ch.F, ch.I, ch.A>>,
     <<ch.F, ch.I, ch.L, ch.M>>,
     <<ch.M, ch.N, ch.O, ch.P, ch.Q, ch.R>>,
     <<ch.S, ch.T, ch.U, ch.V, ch.W, ch.X>>}

\* The game is the one repl builds from --letters abc,def,ghi,jkl.
InitGC ==
    /\ pc = "repl"
    /\ lettersPtr = <<ch.a, ch.b, ch.c, ch.comma, ch.d, ch.e, ch.f, ch.comma,
                      ch.g, ch.h, ch.i, ch.comma, ch.j, ch.k, ch.l>>
    /\ dictionary = EmptyTrie
    /\ linesRead = 0
    /\ accepted = {}
    /\ game = [groupings |-> Split(ToUpper(lettersPtr)), words |-> <<>>]
    /\ solutions = [status |-> "ok", n |-> 0]
    /\ trieMode = FALSE
    /\ currWord = <<>>
    /\ last = NoLine
    /\ exitCode = 0
    /\ gcWords \in UNION {[1..n -> GCPool] : n \in 0..MaxWords}
    /\ gcDone = FALSE
    /\ gcResult = FALSE

\* A call isGameComplete(gcWords).
CallIsGameComplete ==
    /\ ~gcDone
    /\ gcResult' = isGameComplete(gcWords)
    /\ gcDone' = TRUE
    /\ UNCHANGED <<gcWords, pc, lettersPtr, dictionary, linesRead, accepted, game,
                   solutions, trieMode, currWord, last, exitCode>>

NextGC == CallIsGameComplete

SpecGC == InitGC /\ [][NextGC]_vars

----------------------------------------------------------------------------
\* Notions the properties are stated in.

\* The elements of a sequence.
Range(seq) == {seq[n] : n \in 1..Len(seq)}

\* No element occurs twice.
NoDuplicates(seq) == \A m, n \in 1..Len(seq) : seq[m] = seq[n] => m = n

\* The letters of the box.
BoxLetters(g) == UNION {Range(g.groupings[i]) : i \in 1..Len(g.groupings)}

\* The letters occurring in a list of words.
LettersOf(words) == UNION {Range(words[n]) : n \in 1..Len(words)}

\* Letters x and y lie on one side of the box.
SameSide(g, x, y) ==
    \E i \in 1..Len(g.groupings) :
        x \in Range(g.groupings[i]) /\ y \in Range(g.groupings[i])

\* No two consecutive letters of w lie on one side.
NoNeighboursOnASide(g, w) ==
    \A n \in 1..(Len(w) - 1) : ~SameSide(g, w[n], w[n + 1])

\* The node reached by w exists and is marked complete.
Terminal(t, w) == w \in DOMAIN t /\ t[w]

\* numberOfSolutions has been called: the trie is built, the game is set.
Started == solutions.status # "none"

\* The state numberOfSolutions leaves, before any line is read at the prompt.
\* The trie and the game never change after it (TrieIsImmutable).
Built == Started /\ last.kind = "none"

\* Once the game has started, the trie and the game stay as they are.
TrieIsImmutable == [][Started => UNCHANGED <<dictionary, game, solutions>>]_vars

\* The chains a solution count is about.
Chains(t, g) ==
    LET vw == Range(validWords(t, g))
    IN  {c \in vw \X vw \X vw :
            /\ c[2][1] = c[1][Len(c[1])]
            /\ c[3][1] = c[2][Len(c[2])]
            /\ c[1] # c[2] /\ c[1] # c[3] /\ c[2] # c[3]
            /\ LettersOf(c) = BoxLetters(g)}

\* The non-empty prefixes of the upper-cased lines of the word source, and
\* two strings that are never a path.
Prefixes ==
    UNION {{SubSeq(ToUpper(w), 1, n) : n \in 1..Len(w)} : w \in WordPool}
        \cup {<<ch.Z>>, <<ch.a>>}

\* The prefixes explore may be handed.
PrefixPool == {<<>>} \cup Prefixes

\* The cleaned lines the repl may hand to explore.
Tokens == {cleanInput(line) : line \in InputPool}

----------------------------------------------------------------------------
\* The properties.

\* C1: numberOfSolutions returns the number of ordered chains of three
\* pairwise distinct words of validWords, each starting with the last letter
\* of the one before, whose letters together are the 12 letters of the box.
C1_CountsThreeWordChains ==
    Built =>
        /\ solutions.status = "ok"
        /\ solutions.n = Cardinality(Chains(dictionary, game))

\* Whenever numberOfSolutions does return, the count is that number of chains.
CountIsExactWhenReturned ==
    (Built /\ solutions.status = "ok") =>
        solutions.n = Cardinality(Chains(dictionary, game))

\* C2: no word validWords returns, none validWordsStartingWith returns for a
\* letter of the box, and none the repl shows for a query has two consecutive
\* letters on one side of the box.
C2_NoNeighboursOnASide ==
    /\ Built =>
           /\ \A w \in Range(validWords(dictionary, game)) :
                  NoNeighboursOnASide(game, w)
           /\ \A x \in BoxLetters(game) :
                  \A w \in Range(validWordsStartingWith(dictionary, game, <<x>>).words) :
                      w[1] = x /\ NoNeighboursOnASide(game, w)
    /\ \A w \in Range(last.shown) : NoNeighboursOnASide(game, w)

\* A query at the prompt was answered with words.
C2_Witness ==
    /\ last.kind = "query"
    /\ last.shown # <<>>
    /\ \E w \in DOMAIN dictionary :
           Terminal(dictionary, w) /\ ~NoNeighboursOnASide(game, w)

\* C3: isWordValid(word) is true iff the word's letters lead from the root to
\* a node marked complete.
C3_ValidIffTerminal ==
    Built =>
        \A w \in Prefixes : isWordValid(dictionary, w) <=> Terminal(dictionary, w)

\* C4: once the trie is built, the node of every accepted word is complete and
\* allValidWords("") lists exactly the accepted upper-cased words of the
\* source, each once, none with a filtered character.
C4_ExactlyTheAcceptedWords ==
    Built =>
        LET words == allValidWords(dictionary, <<>>)
        IN  /\ \A w \in accepted : Terminal(dictionary, w)
            /\ Range(words) = accepted
            /\ NoDuplicates(words)
            /\ \A w \in Range(words) : ~ContainsAny(w, FilteredChars)

\* C5: a query for a letter on no side of the box leaves the process running.
C5_UnknownLetterIsRecoverable ==
    (last.kind = "query" /\ ActiveGroup(game, ToUpper(last.text)) = -1) =>
        pc = "repl"

\* C6: isGameComplete(words) is true iff the letters of the words are exactly
\* the letters of the box.
C6_CompleteIffBoxLetters ==
    gcDone => (gcResult <=> LettersOf(gcWords) = BoxLetters(game))

\* C6, amended: isGameComplete(words) is true iff at least 12 distinct letters
\* occur in the words; for words made of letters of the box, that is iff their
\* letters are exactly the letters of the box.
C6_CompleteIffTwelveLetters ==
    gcDone =>
        /\ gcResult <=> Cardinality(LettersOf(gcWords)) >= 12
        /\ LettersOf(gcWords) \subseteq BoxLetters(game) =>
               (gcResult <=> LettersOf(gcWords) = BoxLetters(game))

\* isGameComplete returned true for words covering exactly the box.
C6_Witness ==
    /\ gcDone
    /\ gcResult
    /\ LettersOf(gcWords) = BoxLetters(game)
    /\ Len(gcWords) = 3

\* C7: for a token other than .reset and .valid whose upper-cased
\* prefix+token is no path of the trie, explore returns an error and the
\* prefix it was given; explore(".valid", p) returns p and no error.
C7_MissKeepsPrefix ==
    /\ Built =>
           /\ \A p \in PrefixPool : \A tok \in Tokens \ {DotReset, DotValid} :
                  ~HasPath(dictionary, ToUpper(p \o tok)) =>
                      explore(dictionary, tok, p) = [word |-> p, err |-> TRUE]
           /\ \A p \in PrefixPool :
                  explore(dictionary, DotValid, p) = [word |-> p, err |-> FALSE]
    /\ (/\ last.kind = "explore"
        /\ last.text \notin {DotReset, DotValid}
        /\ ~HasPath(dictionary, ToUpper(last.prev \o last.text))) =>
           (last.err /\ currWord = last.prev)
    /\ (last.kind = "explore" /\ last.text = DotValid) =>
           (~last.err /\ currWord = last.prev)

\* The repl's explore missed from a non-empty prefix, which it kept.
C7_Witness ==
    /\ last.kind = "explore"
    /\ last.err
    /\ last.prev # <<>>
    /\ currWord = last.prev

\* C8: validWords returns, each once, exactly the strings of at least 3
\* letters, all of the box, no two consecutive ones on a side, whose path ends
\* on a complete node.
C8_ValidWordsExactly ==
    Built =>
        LET words == validWords(dictionary, game)
        IN  /\ NoDuplicates(words)
            /\ Range(words) =
                   {w \in DOMAIN dictionary :
                       /\ Terminal(dictionary, w)
                       /\ Len(w) >= 3
                       /\ Range(w) \subseteq BoxLetters(game)
                       /\ NoNeighboursOnASide(game, w)}

\* validWords returned words from a trie that also holds a complete two-letter
\* word of the box.
C8_Witness ==
    /\ Built
    /\ validWords(dictionary, game) # <<>>
    /\ \E w \in DOMAIN dictionary :
           /\ Terminal(dictionary, w)
           /\ Len(w) = 2
           /\ Range(w) \subseteq BoxLetters(game)
           /\ NoNeighboursOnASide(game, w)

\* C9: validWordsStartingWith returns a list for every letter of the box, so
\* numberOfSolutions returns a count and a query for a letter of the box is
\* answered, whatever the dictionary: the process never panics.
C9_AlwaysReturns ==
    /\ solutions.status # "panic"
    /\ (last.kind = "query" /\ ActiveGroup(game, ToUpper(last.text)) # -1) =>
           pc = "repl"

\* C10: the prefix the repl keeps is empty or the upper-cased letters of a
\* path of the trie whose node has a child, and a token landing on a node
\* without children resets it to empty.
C10_PrefixHasChildren ==
    /\ \/ currWord = <<>>
       \/ /\ currWord = ToUpper(currWord)
          /\ HasPath(dictionary, currWord)
          /\ ChildKeys(dictionary, currWord) # {}
    /\ (/\ last.kind = "explore"
        /\ last.text \notin {DotReset, DotValid}
        /\ HasPath(dictionary, ToUpper(last.prev \o last.text))
        /\ ChildKeys(dictionary, ToUpper(last.prev \o last.text)) = {}) =>
           currWord = <<>>

\* A token took a non-empty prefix to a node without children.
C10_Witness ==
    /\ last.kind = "explore"
    /\ last.prev # <<>>
    /\ last.text \notin {DotReset, DotValid}
    /\ HasPath(dictionary, ToUpper(last.prev \o last.text))
    /\ ChildKeys(dictionary, ToUpper(last.prev \o last.text)) = {}
    /\ currWord = <<>>

=============================================================================
